---- MODULE Spec2Model ----
(***************************************************************************)
(* Model of convert_units.py: the UnitConverter class (conversion tables,  *)
(* the three linear converters, the temperature converter, get_category)   *)
(* and the command-line entry point main.                                  *)
(*                                                                         *)
(* Python floats are IEEE-754 binary64 values.  They are modelled exactly: *)
(* a float is a record [k, s, m, e] standing for (-1)^s * m * 2^e, the     *)
(* mantissa m being an arbitrary-precision natural number (a little-endian *)
(* sequence of limbs), and every arithmetic operation rounds its exact     *)
(* result to 53 bits, ties to even, with gradual underflow and overflow to *)
(* infinity.                                                               *)
(*                                                                         *)
(* Python strings are modelled as sequences of one-character strings, so   *)
(* that str.lower() is a computation and not the identity.                 *)
(***************************************************************************)
EXTENDS Integers, Sequences, FiniteSets, TLC

VARIABLES pc, args, out, calls

vars == <<pc, args, out, calls>>

(***************************************************************************)
(* Arbitrary-precision naturals: little-endian limbs in base 2^15, without *)
(* leading (most significant) zero limbs; zero is the empty sequence.      *)
(***************************************************************************)
LimbBits == 15

Base == 2^LimbBits

Rest(a) == IF a = <<>> THEN <<>> ELSE Tail(a)

Low(a) == IF a = <<>> THEN 0 ELSE Head(a)

Max0(n) == IF n < 0 THEN 0 ELSE n

Abs(n) == IF n < 0 THEN -n ELSE n

RECURSIVE BNorm(_)
BNorm(a) ==
  IF a = <<>> THEN a
  ELSE IF a[Len(a)] = 0 THEN BNorm(SubSeq(a, 1, Len(a) - 1)) ELSE a

RECURSIVE BFromInt(_)
BFromInt(n) == IF n = 0 THEN <<>> ELSE <<n % Base>> \o BFromInt(n \div Base)

\* a + b + c for a carry c
RECURSIVE BAddC(_, _, _)
BAddC(a, b, c) ==
  IF a = <<>> /\ b = <<>> THEN (IF c = 0 THEN <<>> ELSE <<c>>)
  ELSE <<(Low(a) + Low(b) + c) % Base>>
       \o BAddC(Rest(a), Rest(b), (Low(a) + Low(b) + c) \div Base)

BAdd(a, b) == BAddC(a, b, 0)

\* a - b - c for a borrow c, a >= b + c
RECURSIVE BSubC(_, _, _)
BSubC(a, b, c) ==
  IF a = <<>> THEN <<>>
  ELSE IF Head(a) - Low(b) - c < 0
  THEN <<Head(a) - Low(b) - c + Base>> \o BSubC(Tail(a), Rest(b), 1)
  ELSE <<Head(a) - Low(b) - c>> \o BSubC(Tail(a), Rest(b), 0)

BSub(a, b) == BNorm(BSubC(a, b, 0))

\* -1, 0, 1 as a < b, a = b, a > b
RECURSIVE BCmpFrom(_, _, _)
BCmpFrom(a, b, i) ==
  IF i = 0 THEN 0
  ELSE IF a[i] < b[i] THEN -1
  ELSE IF a[i] > b[i] THEN 1
  ELSE BCmpFrom(a, b, i - 1)

BCmp(a, b) ==
  IF Len(a) < Len(b) THEN -1
  ELSE IF Len(a) > Len(b) THEN 1
  ELSE BCmpFrom(a, b, Len(a))

\* |a - b|
BAbsDiff(a, b) == BNorm(IF BCmp(a, b) >= 0 THEN BSubC(a, b, 0) ELSE BSubC(b, a, 0))

\* a * d + c for 0 <= d, c < Base
RECURSIVE BMulSmallC(_, _, _)
BMulSmallC(a, d, c) ==
  IF a = <<>> THEN (IF c = 0 THEN <<>> ELSE <<c>>)
  ELSE <<(Head(a) * d + c) % Base>>
       \o BMulSmallC(Tail(a), d, (Head(a) * d + c) \div Base)

BMulSmall(a, d) == BNorm(BMulSmallC(a, d, 0))

RECURSIVE BMulRaw(_, _)
BMulRaw(a, b) ==
  IF b = <<>> THEN <<>>
  ELSE BAddC(BMulSmallC(a, Head(b), 0), <<0>> \o BMulRaw(a, Tail(b)), 0)

BMul(a, b) == BNorm(BMulRaw(a, b))

\* the limbs i.. of a, as a number, modulo a small d, 0 < d <= Base
RECURSIVE BRemSmall(_, _, _)
BRemSmall(a, d, i) ==
  IF i > Len(a) THEN 0 ELSE (BRemSmall(a, d, i + 1) * Base + a[i]) % d

\* floor(a / d) for a small d, 0 < d <= Base
BDivSmall(a, d) ==
  BNorm([i \in 1..Len(a) |-> (BRemSmall(a, d, i + 1) * Base + a[i]) \div d])

RECURSIVE IntBitLen(_)
IntBitLen(n) == IF n = 0 THEN 0 ELSE 1 + IntBitLen(n \div 2)

BitLen(a) ==
  IF a = <<>> THEN 0 ELSE LimbBits * (Len(a) - 1) + IntBitLen(a[Len(a)])

\* a * 2^n
BShl(a, n) ==
  IF a = <<>> THEN <<>>
  ELSE [i \in 1..(n \div LimbBits) |-> 0] \o BMulSmall(a, 2^(n % LimbBits))

\* floor(a / 2^n)
BShr(a, n) ==
  IF n \div LimbBits >= Len(a) THEN <<>>
  ELSE BDivSmall(SubSeq(a, n \div LimbBits + 1, Len(a)), 2^(n % LimbBits))

\* bit i of a, bit 0 being the least significant
BBit(a, i) ==
  IF i \div LimbBits >= Len(a) THEN 0
  ELSE (a[i \div LimbBits + 1] \div 2^(i % LimbBits)) % 2

\* whether some bit of a below bit n is set
BLowNonZero(a, n) ==
  \E i \in 1..Len(a) :
    \/ i <= n \div LimbBits /\ a[i] # 0
    \/ i = n \div LimbBits + 1 /\ a[i] % 2^(n % LimbBits) # 0

\* Long division, one limb of the quotient a step.  QDigitEst is the classical
\* estimate of the next quotient limb floor(r / d) from the two leading limbs
\* of r, for r < d * Base and a d whose top limb is at least Base / 2; it is
\* never too small, and QDigitFix lowers it to the exact limb.
QDigitEst(r, d) ==
  IF ((IF Len(r) > Len(d) THEN r[Len(d) + 1] ELSE 0) * Base
      + (IF Len(r) >= Len(d) THEN r[Len(d)] ELSE 0)) \div d[Len(d)] >= Base
  THEN Base - 1
  ELSE ((IF Len(r) > Len(d) THEN r[Len(d) + 1] ELSE 0) * Base
        + (IF Len(r) >= Len(d) THEN r[Len(d)] ELSE 0)) \div d[Len(d)]

RECURSIVE QDigitFix(_, _, _)
QDigitFix(r, d, g) ==
  IF BCmp(BMulSmall(d, g), r) > 0 THEN QDigitFix(r, d, g - 1) ELSE g

\* floor(r / d) for r < d * Base
QDigit(r, d) == QDigitFix(r, d, QDigitEst(r, d))

\* r mod d for r < d * Base
BRemStep(r, d) == BSub(r, BMulSmall(d, QDigit(r, d)))

\* the limbs i.. of n, as a number, modulo d
RECURSIVE BRemFrom(_, _, _)
BRemFrom(n, d, i) ==
  IF i > Len(n) THEN <<>>
  ELSE BRemStep(BNorm(<<n[i]>> \o BRemFrom(n, d, i + 1)), d)

\* floor(n / d), for a d whose top limb is at least Base / 2
BDivQ(n, d) ==
  BNorm([i \in 1..Len(n) |-> QDigit(BNorm(<<n[i]>> \o BRemFrom(n, d, i + 1)), d)])

\* the left shift that brings the top limb of d to at least Base / 2
TopShift(d) == LimbBits - IntBitLen(d[Len(d)])

(***************************************************************************)
(* IEEE-754 binary64, the arithmetic of a Python float.  A finite value is *)
(* [k |-> "fin", s, m, e] = (-1)^s * m * 2^e with either m = 0 (then e = 0)*)
(* or BitLen(m) = MantBits and MinExp <= e <= MaxExp (normal), or          *)
(* BitLen(m) < MantBits and e = MinExp (subnormal).                        *)
(***************************************************************************)
MantBits == 53

MinExp == -1074

MaxExp == 971

FZero(s) == [k |-> "fin", s |-> s, m |-> <<>>, e |-> 0]

FInf(s) == [k |-> "inf", s |-> s, m |-> <<>>, e |-> 0]

FNaN == [k |-> "nan", s |-> 0, m |-> <<>>, e |-> 0]

\* what a float division by zero gives: Python raises ZeroDivisionError
ZeroDiv == [k |-> "zerodiv", s |-> 0, m |-> <<>>, e |-> 0]

IsZero(a) == a.k = "fin" /\ a.m = <<>>

FPack(s, m, e) ==
  IF m = <<>> THEN FZero(s)
  ELSE IF e > MaxExp THEN FInf(s)
  ELSE [k |-> "fin", s |-> s, m |-> m, e |-> e]

\* the mantissa m1 at exponent e1, renormalised when rounding up carried out
FCarry(s, m1, e1) ==
  IF BitLen(m1) > MantBits THEN FPack(s, BShr(m1, 1), e1 + 1) ELSE FPack(s, m1, e1)

\* ties to even: the dropped bits are more than half of the last kept bit, or
\* exactly half of it and the last kept bit is odd
RoundsUp(q, drop, sticky) ==
  /\ BBit(q, drop - 1) = 1
  /\ (sticky \/ BLowNonZero(q, drop - 1) \/ BBit(q, drop) = 1)

\* q * 2^e rounded to a mantissa at exponent e1
FRoundAt(s, q, sticky, e, e1) ==
  IF e1 <= e THEN FPack(s, BShl(q, e - e1), e1)
  ELSE FCarry(s, BAddC(BShr(q, e1 - e), <<>>,
                       IF RoundsUp(q, e1 - e, sticky) THEN 1 ELSE 0), e1)

\* (-1)^s * (q + d) * 2^e rounded to the nearest float, ties to even, where
\* 0 <= d < 1 and d # 0 exactly if sticky; sticky requires BitLen(q) >= MantBits + 2
FRound(s, q, sticky, e) ==
  IF q = <<>> THEN FZero(s)
  ELSE FRoundAt(s, q, sticky, e,
                IF e + BitLen(q) - MantBits < MinExp THEN MinExp
                ELSE e + BitLen(q) - MantBits)

\* (-1)^s * (n / d) * 2^e rounded, for n > 0 and a d whose top limb is at least
\* Base / 2, with BitLen(n) - BitLen(d) = MantBits + 2
FRoundDiv(s, n, d, e) == FRound(s, BDivQ(n, d), BRemFrom(n, d, 1) # <<>>, e)

\* the same for any n > 0 and d > 0: n is first scaled by 2^sh
FRoundScaled(s, n, d, e, sh) ==
  FRoundDiv(s, BShl(n, Max0(sh) + TopShift(d)), BShl(d, Max0(-sh) + TopShift(d)), e - sh)

\* (-1)^s * (n / d) * 2^e rounded, for naturals n and d > 0
FRoundQuot(s, n, d, e) ==
  IF n = <<>> THEN FZero(s)
  ELSE FRoundScaled(s, n, d, e, (MantBits + 2) - (BitLen(n) - BitLen(d)))

SignXor(a, b) == IF a.s = b.s THEN 0 ELSE 1

FNeg(a) == IF a.k \in {"nan", "zerodiv"} THEN a ELSE [a EXCEPT !.s = 1 - a.s]

\* a * b
FMul(a, b) ==
  IF a.k = "zerodiv" \/ b.k = "zerodiv" THEN ZeroDiv
  ELSE IF a.k = "nan" \/ b.k = "nan" THEN FNaN
  ELSE IF a.k = "inf" \/ b.k = "inf"
       THEN (IF IsZero(a) \/ IsZero(b) THEN FNaN ELSE FInf(SignXor(a, b)))
  ELSE FRound(SignXor(a, b), BMul(a.m, b.m), FALSE, a.e + b.e)

\* a / b
FDiv(a, b) ==
  IF a.k = "zerodiv" \/ b.k = "zerodiv" \/ IsZero(b) THEN ZeroDiv
  ELSE IF a.k = "nan" \/ b.k = "nan" THEN FNaN
  ELSE IF a.k = "inf" THEN (IF b.k = "inf" THEN FNaN ELSE FInf(SignXor(a, b)))
  ELSE IF b.k = "inf" THEN FZero(SignXor(a, b))
  ELSE FRoundQuot(SignXor(a, b), a.m, b.m, a.e - b.e)

\* x * 2^e + y * 2^e with the signs sx and sy, rounded
FAddAligned(sx, x, sy, y, e) ==
  FRound(IF sx = sy \/ BCmp(x, y) > 0 THEN sx ELSE IF BCmp(x, y) < 0 THEN sy ELSE 0,
         IF sx = sy THEN BAdd(x, y) ELSE BAbsDiff(x, y), FALSE, e)

\* a + b for finite nonzero a and b: the exact sum, rounded
FAddExact(a, b) ==
  FAddAligned(a.s, BShl(a.m, a.e - (IF a.e < b.e THEN a.e ELSE b.e)),
              b.s, BShl(b.m, b.e - (IF a.e < b.e THEN a.e ELSE b.e)),
              IF a.e < b.e THEN a.e ELSE b.e)

\* a value of the sign of b, below a quarter of the last bit of a: what an
\* operand more than MantBits + 3 binary places below a contributes to a sum
FTiny(a, b) == [k |-> "fin", s |-> b.s, m |-> <<1>>, e |-> a.e - 3]

\* the binary places between the leading bits of a and b
Gap(a, b) == (a.e + BitLen(a.m)) - (b.e + BitLen(b.m))

\* a + b
FAdd(a, b) ==
  IF a.k = "zerodiv" \/ b.k = "zerodiv" THEN ZeroDiv
  ELSE IF a.k = "nan" \/ b.k = "nan" THEN FNaN
  ELSE IF a.k = "inf" THEN (IF b.k = "inf" /\ a.s # b.s THEN FNaN ELSE a)
  ELSE IF b.k = "inf" THEN b
  ELSE IF IsZero(a) /\ IsZero(b) THEN FZero(IF a.s = b.s THEN a.s ELSE 0)
  ELSE IF IsZero(a) THEN b
  ELSE IF IsZero(b) THEN a
  ELSE FAddExact(IF -Gap(a, b) > MantBits + 3 THEN FTiny(b, a) ELSE a,
                 IF Gap(a, b) > MantBits + 3 THEN FTiny(a, b) ELSE b)

\* a - b
FSub(a, b) == FAdd(a, FNeg(b))

\* the float n * 2^e, for an int n
Ldexp(n, e) == FRound(IF n < 0 THEN 1 ELSE 0, BFromInt(Abs(n)), FALSE, e)

\* float(n) for an int n
FromInt(n) == Ldexp(n, 0)

RECURSIVE Pow10(_)
Pow10(k) == IF k = 0 THEN <<1>> ELSE BMulSmall(Pow10(k - 1), 10)

\* the float a decimal literal n * 10^k denotes (n an int): the nearest one
Dec(n, k) ==
  FRoundQuot(IF n < 0 THEN 1 ELSE 0,
             BMul(BFromInt(Abs(n)), Pow10(Max0(k))), Pow10(Max0(-k)), 0)

(***************************************************************************)
(* Python str: a sequence of characters.  str.lower() maps the cased       *)
(* characters to lower case and leaves every other character alone.        *)
(***************************************************************************)
UpperCase ==
  << "A", "B", "C", "D", "E", "F", "G", "H", "I", "J", "K", "L", "M",
     "N", "O", "P", "Q", "R", "S", "T", "U", "V", "W", "X", "Y", "Z" >>

LowerCase ==
  << "a", "b", "c", "d", "e", "f", "g", "h", "i", "j", "k", "l", "m",
     "n", "o", "p", "q", "r", "s", "t", "u", "v", "w", "x", "y", "z" >>

CharLower(ch) ==
  IF \E i \in DOMAIN UpperCase : UpperCase[i] = ch
  THEN LowerCase[CHOOSE i \in DOMAIN UpperCase : UpperCase[i] = ch]
  ELSE ch

CharUpper(ch) ==
  IF \E i \in DOMAIN LowerCase : LowerCase[i] = ch
  THEN UpperCase[CHOOSE i \in DOMAIN LowerCase : LowerCase[i] = ch]
  ELSE ch

\* str.lower()
lower(str) == [i \in 1..Len(str) |-> CharLower(str[i])]

(***************************************************************************)
(* class UnitConverter: the conversion tables.  A dict is a function from  *)
(* its keys; a factor is kept as the decimal literal of the source text,   *)
(* <<n, k>> for n * 10^k, and float_of gives the float the literal denotes.*)
(***************************************************************************)
\* Length conversion factors (to meters)
LENGTH_UNITS ==
  (<<"m", "m">> :> <<1, -3>>) @@ (<<"c", "m">> :> <<1, -2>>)
  @@ (<<"m">> :> <<10, -1>>) @@ (<<"k", "m">> :> <<10000, -1>>)
  @@ (<<"i", "n">> :> <<254, -4>>) @@ (<<"f", "t">> :> <<3048, -4>>)
  @@ (<<"y", "d">> :> <<9144, -4>>) @@ (<<"m", "i">> :> <<160934, -2>>)

\* Weight conversion factors (to kilograms)
WEIGHT_UNITS ==
  (<<"g">> :> <<1, -3>>) @@ (<<"k", "g">> :> <<10, -1>>)
  @@ (<<"t">> :> <<10000, -1>>)
  @@ (<<"o", "z">> :> <<283495, -7>>) @@ (<<"l", "b">> :> <<453592, -6>>)
  @@ (<<"s", "t">> :> <<635029, -5>>) @@ (<<"t", "o", "n">> :> <<907185, -3>>)

\* VOLUME_UNITS with the US fluid ounce under the key 'oz'
VOLUME_UNITS_oz ==
  (<<"m", "l">> :> <<1, -3>>) @@ (<<"l">> :> <<10, -1>>)
  @@ (<<"k", "l">> :> <<10000, -1>>)
  @@ (<<"o", "z">> :> <<295735, -7>>)
  @@ (<<"c", "u", "p">> :> <<236588, -6>>) @@ (<<"p", "t">> :> <<473176, -6>>)
  @@ (<<"q", "t">> :> <<946353, -6>>) @@ (<<"g", "a", "l">> :> <<378541, -5>>)

\* Volume conversion factors (to liters)
VOLUME_UNITS ==
  (<<"m", "l">> :> <<1, -3>>) @@ (<<"l">> :> <<10, -1>>)
  @@ (<<"k", "l">> :> <<10000, -1>>)
  @@ (<<"f", "l", "_", "o", "z">> :> <<295735, -7>>)
  @@ (<<"c", "u", "p">> :> <<236588, -6>>) @@ (<<"p", "t">> :> <<473176, -6>>)
  @@ (<<"q", "t">> :> <<946353, -6>>) @@ (<<"g", "a", "l">> :> <<378541, -5>>)

\* the float a literal of the source text denotes
float_of(lit) == Dec(lit[1], lit[2])

\* the lists the temperature branches test membership in
CelsiusNames == {<<"c">>, <<"c", "e", "l", "s", "i", "u", "s">>}

FahrenheitNames == {<<"f">>, <<"f", "a", "h", "r", "e", "n", "h", "e", "i", "t">>}

KelvinNames == {<<"k">>, <<"k", "e", "l", "v", "i", "n">>}

\* the list get_category tests membership in
TemperatureNames ==
  { <<"c">>, <<"c", "e", "l", "s", "i", "u", "s">>,
    <<"f">>, <<"f", "a", "h", "r", "e", "n", "h", "e", "i", "t">>,
    <<"k">>, <<"k", "e", "l", "v", "i", "n">> }

(***************************************************************************)
(* What a call gives: a returned value, or a raised exception.             *)
(***************************************************************************)
NoFloat == FZero(0)

Raise(exc, text, unit) ==
  [raised |-> TRUE, exc |-> exc, text |-> text, unit |-> unit, value |-> NoFloat]

\* return of a float; a float division by zero raises instead
Return(x) ==
  IF x.k = "zerodiv" THEN Raise("ZeroDivisionError", "float division by zero", <<>>)
  ELSE [raised |-> FALSE, exc |-> "", text |-> "", unit |-> <<>>, value |-> x]

convert_length(value, from_unit, to_unit) ==
  IF from_unit \notin DOMAIN LENGTH_UNITS
  THEN Raise("ValueError", "Unknown length unit: ", from_unit)
  ELSE IF to_unit \notin DOMAIN LENGTH_UNITS
  THEN Raise("ValueError", "Unknown length unit: ", to_unit)
  ELSE Return(FDiv(FMul(value, float_of(LENGTH_UNITS[from_unit])),
                   float_of(LENGTH_UNITS[to_unit])))

\* convert_weight with to_unit checked before from_unit
convert_weight_to_first(value, from_unit, to_unit) ==
  IF to_unit \notin DOMAIN WEIGHT_UNITS
  THEN Raise("ValueError", "Unknown weight unit: ", to_unit)
  ELSE IF from_unit \notin DOMAIN WEIGHT_UNITS
  THEN Raise("ValueError", "Unknown weight unit: ", from_unit)
  ELSE Return(FDiv(FMul(value, float_of(WEIGHT_UNITS[from_unit])),
                   float_of(WEIGHT_UNITS[to_unit])))

convert_weight(value, from_unit, to_unit) ==
  IF from_unit \notin DOMAIN WEIGHT_UNITS
  THEN Raise("ValueError", "Unknown weight unit: ", from_unit)
  ELSE IF to_unit \notin DOMAIN WEIGHT_UNITS
  THEN Raise("ValueError", "Unknown weight unit: ", to_unit)
  ELSE Return(FDiv(FMul(value, float_of(WEIGHT_UNITS[from_unit])),
                   float_of(WEIGHT_UNITS[to_unit])))

\* convert_volume multiplying by the factor of to_unit
convert_volume_times(value, from_unit, to_unit) ==
  IF from_unit \notin DOMAIN VOLUME_UNITS
  THEN Raise("ValueError", "Unknown volume unit: ", from_unit)
  ELSE IF to_unit \notin DOMAIN VOLUME_UNITS
  THEN Raise("ValueError", "Unknown volume unit: ", to_unit)
  ELSE Return(FMul(FMul(value, float_of(VOLUME_UNITS[from_unit])),
                   float_of(VOLUME_UNITS[to_unit])))

convert_volume(value, from_unit, to_unit) ==
  IF from_unit \notin DOMAIN VOLUME_UNITS
  THEN Raise("ValueError", "Unknown volume unit: ", from_unit)
  ELSE IF to_unit \notin DOMAIN VOLUME_UNITS
  THEN Raise("ValueError", "Unknown volume unit: ", to_unit)
  ELSE Return(FDiv(FMul(value, float_of(VOLUME_UNITS[from_unit])),
                   float_of(VOLUME_UNITS[to_unit])))

\* the first chain with the Fahrenheit ratio upside down
to_celsius_swapped(value, from_lower) ==
  IF from_lower \in CelsiusNames THEN Return(value)
  ELSE IF from_lower \in FahrenheitNames
  THEN Return(FDiv(FMul(FSub(value, FromInt(32)), FromInt(9)), FromInt(5)))
  ELSE IF from_lower \in KelvinNames THEN Return(FSub(value, Dec(27315, -2)))
  ELSE Raise("ValueError", "Unknown temperature unit: ", from_lower)

\* the first if/elif chain of convert_temperature: "to Celsius first"
to_celsius(value, from_lower) ==
  IF from_lower \in CelsiusNames THEN Return(value)
  ELSE IF from_lower \in FahrenheitNames
  THEN Return(FDiv(FMul(FSub(value, FromInt(32)), FromInt(5)), FromInt(9)))
  ELSE IF from_lower \in KelvinNames THEN Return(FSub(value, Dec(27315, -2)))
  ELSE Raise("ValueError", "Unknown temperature unit: ", from_lower)

\* the second if/elif chain: "from Celsius to target unit"
from_celsius(celsius, to_lower) ==
  IF to_lower \in CelsiusNames THEN Return(celsius)
  ELSE IF to_lower \in FahrenheitNames
  THEN Return(FAdd(FDiv(FMul(celsius, FromInt(9)), FromInt(5)), FromInt(32)))
  ELSE IF to_lower \in KelvinNames THEN Return(FAdd(celsius, Dec(27315, -2)))
  ELSE Raise("ValueError", "Unknown temperature unit: ", to_lower)

\* the second chain runs on what the first returned, unless the first raised
then_from_celsius(first, to_lower) ==
  IF first.raised THEN first ELSE from_celsius(first.value, to_lower)

convert_temperature(value, from_unit, to_unit) ==
  then_from_celsius(to_celsius(value, lower(from_unit)), lower(to_unit))

None == "None"

\* the if/elif chain of get_category on the lowercased unit
category_of(unit_lower) ==
  IF unit_lower \in DOMAIN LENGTH_UNITS THEN "length"
  ELSE IF unit_lower \in DOMAIN WEIGHT_UNITS THEN "weight"
  ELSE IF unit_lower \in DOMAIN VOLUME_UNITS THEN "volume"
  ELSE IF unit_lower \in TemperatureNames THEN "temperature"
  ELSE None

\* get_category without the lowercasing of line 101
get_category_exact(unit) == category_of(unit)

get_category(unit) == category_of(lower(unit))

\* print_available_units(): the unit listing, as one item of the output
print_available_units == <<[t |-> "Listing"]>>

\* the test of line 172 with == for !=
units_differ_inverted(category, to_unit) == category = get_category(to_unit)

\* the test of line 172: the category of from_unit against that of to_unit
units_differ(category, to_unit) == category # get_category(to_unit)

\* a call of a converter: its name, its arguments and what it gives
Call(fn, value, from_unit, to_unit, ret) ==
  [fn |-> fn, value |-> value, from_unit |-> from_unit, to_unit |-> to_unit,
   ret |-> ret]

\* lines 177-184 without the .lower() of the arguments of the linear converters
dispatch_raw(category, value, from_unit, to_unit) ==
  IF category = "length"
  THEN Call("convert_length", value, from_unit, to_unit,
            convert_length(value, from_unit, to_unit))
  ELSE IF category = "weight"
  THEN Call("convert_weight", value, from_unit, to_unit,
            convert_weight(value, from_unit, to_unit))
  ELSE IF category = "volume"
  THEN Call("convert_volume", value, from_unit, to_unit,
            convert_volume(value, from_unit, to_unit))
  ELSE Call("convert_temperature", value, from_unit, to_unit,
            convert_temperature(value, from_unit, to_unit))

\* the if/elif chain of lines 177-184: the converter called and what it gives
dispatch(category, value, from_unit, to_unit) ==
  IF category = "length"
  THEN Call("convert_length", value, lower(from_unit), lower(to_unit),
            convert_length(value, lower(from_unit), lower(to_unit)))
  ELSE IF category = "weight"
  THEN Call("convert_weight", value, lower(from_unit), lower(to_unit),
            convert_weight(value, lower(from_unit), lower(to_unit)))
  ELSE IF category = "volume"
  THEN Call("convert_volume", value, lower(from_unit), lower(to_unit),
            convert_volume(value, lower(from_unit), lower(to_unit)))
  ELSE Call("convert_temperature", value, from_unit, to_unit,
            convert_temperature(value, from_unit, to_unit))

\* what main prints after the converter call, lines 189-195.  The result
\* line stands for the text "{value} {from_unit} = {result:.6f} {to_unit}".
main_print(value, from_unit, to_unit, call) ==
  IF ~call.ret.raised
  THEN [out   |-> <<[t |-> "Result", value |-> value, from_unit |-> from_unit,
                     result |-> call.ret.value, to_unit |-> to_unit]>>,
        calls |-> <<call>>]
  ELSE IF call.ret.exc = "ValueError"
  THEN [out   |-> <<[t |-> "Error", text |-> call.ret.text, unit |-> call.ret.unit]>>
                  \o print_available_units,
        calls |-> <<call>>]
  ELSE [out   |-> <<[t |-> "Unexpected", text |-> call.ret.text]>>,
        calls |-> <<call>>]

\* the body of the try statement of main once the category of from_unit is
\* known, lines 167-187
main_checked(value, from_unit, to_unit, category) ==
  IF category = None
  THEN [out   |-> <<[t |-> "UnknownUnit", unit |-> from_unit]>>
                  \o print_available_units,
        calls |-> <<>>]
  ELSE IF units_differ(category, to_unit)
  THEN [out   |-> <<[t |-> "SameCategory"],
                    [t |-> "Categories",
                     from_unit |-> from_unit, from_category |-> category,
                     to_unit |-> to_unit, to_category |-> get_category(to_unit)]>>,
        calls |-> <<>>]
  ELSE IF category \notin {"length", "weight", "volume", "temperature"}
  THEN [out   |-> <<[t |-> "Unsupported", category |-> category]>>,
        calls |-> <<>>]
  ELSE main_print(value, from_unit, to_unit,
                  dispatch(category, value, from_unit, to_unit))

\* the try statement of main, lines 165-195: the lines printed and the
\* converter calls made
main_convert(value, from_unit, to_unit) ==
  main_checked(value, from_unit, to_unit, get_category(from_unit))

(***************************************************************************)
(* The inputs.  A unit argument is a registered symbol or an unregistered  *)
(* string, in several letter-casings; a value is a float.                  *)
(***************************************************************************)
Registered ==
  DOMAIN LENGTH_UNITS \cup DOMAIN WEIGHT_UNITS \cup DOMAIN VOLUME_UNITS
  \cup TemperatureNames

Unregistered == {<<"x", "y", "z">>, <<>>, <<"k", "m", "h">>}

Symbols == Registered \cup Unregistered

\* the characters of a string beyond position MaxCasePos keep their case,
\* except in the string written all in capitals
MaxCasePos == 1

WithUpper(str, P) ==
  [i \in 1..Len(str) |-> IF i \in P THEN CharUpper(str[i]) ELSE str[i]]

Casings(str) ==
  {WithUpper(str, P) :
     P \in SUBSET (1..(IF Len(str) < MaxCasePos THEN Len(str) ELSE MaxCasePos))}
  \cup {WithUpper(str, 1..Len(str))}

CasedSymbols == UNION {Casings(str) : str \in Symbols}

\* values given on the command line
MainValues == {Dec(100, 0), Dec(-40, 0)}

\* the value that goes with the symbols in mixed case
CaseValue == Dec(325, -1)

Requests ==
  {<<v, f, t>> : v \in MainValues, f \in Symbols, t \in Symbols}
  \cup {<<CaseValue, f, t>> : f \in CasedSymbols, t \in CasedSymbols}

\* the parsed command line: --list, and the positionals given, in order
MainInputs ==
  {[list |-> FALSE, pos |-> r] : r \in Requests}
  \cup {[list |-> b, pos |-> SubSeq(<<CaseValue, <<"k", "m">>, <<"m", "i">> >>, 1, n)] :
          b \in BOOLEAN, n \in 0..3}

(***************************************************************************)
(* main(): one run of the program.                                         *)
(***************************************************************************)
Init ==
  /\ pc = "start"
  /\ args \in MainInputs
  /\ out = <<>>
  /\ calls = <<>>

\* lines 155-157
MainList ==
  /\ pc = "start"
  /\ args.list
  /\ out' = print_available_units
  /\ pc' = "done"
  /\ UNCHANGED <<args, calls>>

\* lines 159-161
MainHelp ==
  /\ pc = "start"
  /\ ~args.list
  /\ Len(args.pos) < 3
  /\ out' = <<[t |-> "Help"]>>
  /\ pc' = "done"
  /\ UNCHANGED <<args, calls>>

\* lines 163-195
MainConvert ==
  /\ pc = "start"
  /\ ~args.list
  /\ Len(args.pos) = 3
  /\ out' = main_convert(args.pos[1], args.pos[2], args.pos[3]).out
  /\ calls' = main_convert(args.pos[1], args.pos[2], args.pos[3]).calls
  /\ pc' = "done"
  /\ UNCHANGED args

Next == MainList \/ MainHelp \/ MainConvert

Spec == Init /\ [][Next]_vars

(***************************************************************************)
(* Properties of main, checked under Spec.                                 *)
(***************************************************************************)
\* main has handled a conversion request: value, from_unit and to_unit given
Done3 == pc = "done" /\ ~args.list /\ Len(args.pos) = 3

\* the kinds of the lines printed, in order
Kinds(o) == [i \in 1..Len(o) |-> o[i].t]

\* the numeric results printed, in order
Numbers(o) ==
  [i \in 1..Len(SelectSeq(o, LAMBDA l : l.t = "Result")) |->
     SelectSeq(o, LAMBDA l : l.t = "Result")[i].result]

\* the outcome kind and the numeric result of a run
Outcome(o) == <<Kinds(o), Numbers(o)>>

\* the units of the request get_category has no category for
Unrecognized == {u \in {args.pos[2], args.pos[3]} : get_category(u) = None}

\* C1: a request in which from_unit or to_unit is a symbol get_category does
\* not recognize ends in the UnknownUnit outcome: the message naming the
\* unrecognized unit, followed by the unit listing, whether the unrecognized
\* symbol is from_unit, to_unit or both.
C1_UnknownUnitOutcome ==
  Done3 /\ Unrecognized # {}
  => /\ Kinds(out) = <<"UnknownUnit", "Listing">>
     /\ out[1].unit \in Unrecognized

\* C2: a request whose units resolve to two different categories ends in
\* CategoryMismatch: the same-category message and one line naming the resolved
\* category of each unit; no converter is invoked and no result line is printed.
C2_CategoryMismatch ==
  /\ Done3
  /\ get_category(args.pos[2]) # None
  /\ get_category(args.pos[3]) # None
  /\ get_category(args.pos[2]) # get_category(args.pos[3])
  => /\ out = << [t |-> "SameCategory"],
                 [t |-> "Categories",
                  from_unit |-> args.pos[2], from_category |-> get_category(args.pos[2]),
                  to_unit |-> args.pos[3], to_category |-> get_category(args.pos[3])] >>
     /\ calls = <<>>

\* a length unit against a weight unit has been refused
C2_Witness ==
  /\ Done3
  /\ get_category(args.pos[2]) = "length"
  /\ get_category(args.pos[3]) = "weight"
  /\ Kinds(out) = <<"SameCategory", "Categories">>

\* C3: matching is case-insensitive through get_category and main: each unit
\* of a request has the category of its lowercase form, and main ends in the
\* same outcome kind and the same numeric result as for the request with
\* both units in lower case, temperature included.
C3_CaseInsensitive ==
  Done3
  => /\ get_category(args.pos[2]) = get_category(lower(args.pos[2]))
     /\ get_category(args.pos[3]) = get_category(lower(args.pos[3]))
     /\ Outcome(out)
        = Outcome(main_convert(args.pos[1], lower(args.pos[2]), lower(args.pos[3])).out)

\* a temperature request with both units not in lower case gave a result
C3_Witness ==
  /\ Done3
  /\ args.pos[2] # lower(args.pos[2])
  /\ args.pos[3] # lower(args.pos[3])
  /\ get_category(lower(args.pos[2])) = "temperature"
  /\ Kinds(out) = <<"Result">>

\* the converter main calls for a category
ConverterOf(category) ==
  CASE category = "length" -> "convert_length"
    [] category = "weight" -> "convert_weight"
    [] category = "volume" -> "convert_volume"
    [] category = "temperature" -> "convert_temperature"
    [] OTHER -> "none"

\* C10: main reaches a converter only after get_category gave the same
\* category, not None, for both units, and the linear converters receive the
\* lowercased symbols; the converter main invokes never raises, the
\* "Error: <text>" and "Unsupported category" lines are never printed, and a
\* request that reaches a converter ends in exactly one numeric result line.
C10_ConverterNeverRaises ==
  pc = "done"
  => /\ \A i \in 1..Len(calls) :
          /\ get_category(args.pos[2]) # None
          /\ get_category(args.pos[2]) = get_category(args.pos[3])
          /\ calls[i].fn = ConverterOf(get_category(args.pos[2]))
          /\ calls[i].fn # "convert_temperature"
             => /\ calls[i].from_unit = lower(args.pos[2])
                /\ calls[i].to_unit = lower(args.pos[3])
          /\ ~calls[i].ret.raised
     /\ \A i \in 1..Len(out) : out[i].t \notin {"Error", "Unsupported"}
     /\ calls # <<>>
        => /\ Len(calls) = 1
           /\ Kinds(out) = <<"Result">>
           /\ out[1].result = calls[1].ret.value

\* a length request with from_unit not in lower case reached convert_length
C10_Witness ==
  /\ pc = "done"
  /\ Len(calls) = 1
  /\ calls[1].fn = "convert_length"
  /\ args.pos[2] # lower(args.pos[2])
  /\ Kinds(out) = <<"Result">>

(***************************************************************************)
(* The class used as a library: a client calls one static method of        *)
(* UnitConverter with arguments of its choice, and may convert the value   *)
(* a converter returned back, with the two units exchanged.                *)
(***************************************************************************)
\* unit arguments of direct calls: every symbol, and some in other casings
LibUnits ==
  Symbols
  \cup {WithUpper(str, 1..Len(str)) :
          str \in {<<"k", "m">>, <<"l", "b">>, <<"g", "a", "l">>, <<"f">>}}
  \cup {WithUpper(str, {1}) : str \in {<<"f", "t">>, <<"k", "e", "l", "v", "i", "n">>}}

\* value arguments of direct calls: 0.0, 0.1, 1.0, 3.0, 7.0, 32.0, -40.0,
\* 100.5, 12345.6789, and powers of two near the ends of the float range
LibValues ==
  {Dec(lit[1], lit[2]) :
     lit \in {<<0, 0>>, <<1, -1>>, <<1, 0>>, <<3, 0>>, <<7, 0>>, <<32, 0>>,
              <<-40, 0>>, <<1005, -1>>, <<123456789, -4>>}}
  \cup {Ldexp(1, e) : e \in {-1074, -1000, 1000, 1020}}

LibInputs ==
  {[value |-> v, from_unit |-> f, to_unit |-> t] :
     v \in LibValues, f \in LibUnits, t \in LibUnits}

LibInit ==
  /\ pc = "lib"
  /\ args \in LibInputs
  /\ out = <<>>
  /\ calls = <<>>

ConvertLength ==
  /\ pc = "lib"
  /\ calls' = <<Call("convert_length", args.value, args.from_unit, args.to_unit,
                     convert_length(args.value, args.from_unit, args.to_unit))>>
  /\ pc' = "called"
  /\ UNCHANGED <<args, out>>

ConvertWeight ==
  /\ pc = "lib"
  /\ calls' = <<Call("convert_weight", args.value, args.from_unit, args.to_unit,
                     convert_weight(args.value, args.from_unit, args.to_unit))>>
  /\ pc' = "called"
  /\ UNCHANGED <<args, out>>

ConvertVolume ==
  /\ pc = "lib"
  /\ calls' = <<Call("convert_volume", args.value, args.from_unit, args.to_unit,
                     convert_volume(args.value, args.from_unit, args.to_unit))>>
  /\ pc' = "called"
  /\ UNCHANGED <<args, out>>

ConvertTemperature ==
  /\ pc = "lib"
  /\ calls' = <<Call("convert_temperature", args.value, args.from_unit, args.to_unit,
                     convert_temperature(args.value, args.from_unit, args.to_unit))>>
  /\ pc' = "called"
  /\ UNCHANGED <<args, out>>

GetCategory ==
  /\ pc = "lib"
  /\ out' = <<[t |-> "Category", unit |-> args.from_unit,
               category |-> get_category(args.from_unit)]>>
  /\ pc' = "resolved"
  /\ UNCHANGED <<args, calls>>

\* the static method of the name fn
convert(fn, value, from_unit, to_unit) ==
  IF fn = "convert_length" THEN convert_length(value, from_unit, to_unit)
  ELSE IF fn = "convert_weight" THEN convert_weight(value, from_unit, to_unit)
  ELSE IF fn = "convert_volume" THEN convert_volume(value, from_unit, to_unit)
  ELSE convert_temperature(value, from_unit, to_unit)

\* the same converter again, on the value it returned, the units exchanged
ConvertBack ==
  /\ pc = "called"
  /\ ~calls[1].ret.raised
  /\ calls' = Append(calls,
                Call(calls[1].fn, calls[1].ret.value, calls[1].to_unit, calls[1].from_unit,
                     convert(calls[1].fn, calls[1].ret.value,
                             calls[1].to_unit, calls[1].from_unit)))
  /\ pc' = "back"
  /\ UNCHANGED <<args, out>>

LibNext ==
  \/ ConvertLength
  \/ ConvertWeight
  \/ ConvertVolume
  \/ ConvertTemperature
  \/ GetCategory
  \/ ConvertBack

SpecLib == LibInit /\ [][LibNext]_vars

(***************************************************************************)
(* Properties of the static methods, checked under SpecLib.                *)
(***************************************************************************)
LinearFns == {"convert_length", "convert_weight", "convert_volume"}

CategoryNames == <<"length", "weight", "volume", "temperature">>

\* the symbols registered in each category, in the order of CategoryNames
KeySets ==
  <<DOMAIN LENGTH_UNITS, DOMAIN WEIGHT_UNITS, DOMAIN VOLUME_UNITS,
    {<<"c">>, <<"c", "e", "l", "s", "i", "u", "s">>,
     <<"f">>, <<"f", "a", "h", "r", "e", "n", "h", "e", "i", "t">>,
     <<"k">>, <<"k", "e", "l", "v", "i", "n">>}>>

\* the symbols of the category of the converter fn
KeysOf(fn) ==
  CASE fn = "convert_length" -> KeySets[1]
    [] fn = "convert_weight" -> KeySets[2]
    [] fn = "convert_volume" -> KeySets[3]
    [] fn = "convert_temperature" -> KeySets[4]

\* the text of the unknown-unit error of the converter fn
UnknownText(fn) ==
  CASE fn = "convert_length" -> "Unknown length unit: "
    [] fn = "convert_weight" -> "Unknown weight unit: "
    [] fn = "convert_volume" -> "Unknown volume unit: "
    [] fn = "convert_temperature" -> "Unknown temperature unit: "

\* C4: the key sets of the three tables and the temperature synonym set are
\* pairwise disjoint, and the category get_category returns for a symbol is
\* the one set that contains it, whatever the order of the checks.
C4_OneCategory ==
  /\ \A i, j \in 1..4 : i # j => KeySets[i] \cap KeySets[j] = {}
  /\ TemperatureNames = KeySets[4]
  /\ pc = "resolved"
     => \A i \in 1..4 :
          lower(out[1].unit) \in KeySets[i] <=> out[1].category = CategoryNames[i]

\* get_category has resolved a volume unit whose name holds a weight unit's
C4_Witness ==
  /\ pc = "resolved"
  /\ out[1].unit = <<"f", "l", "_", "o", "z">>
  /\ out[1].category = "volume"

\* a == b, as Python compares two floats
FEq(a, b) ==
  /\ a.k \in {"fin", "inf"}
  /\ b.k \in {"fin", "inf"}
  /\ \/ a = b
     \/ IsZero(a) /\ IsZero(b)

\* a <= b for finite a and b, a > 0 and b > 0
FLePos(a, b) ==
  \/ Gap(a, b) < 0
  \/ Gap(a, b) = 0 /\ BCmp(BShl(a.m, a.e - MinExp), BShl(b.m, b.e - MinExp)) <= 0

\* a finite float above zero
Positive(v) == v.k = "fin" /\ v.s = 0 /\ v.m # <<>>

\* 2^-1000 <= v <= 2^1000, for a positive v
InRange(v) == FLePos(Ldexp(1, -1000), v) /\ FLePos(v, Ldexp(1, 1000))

\* |x * 2^e - y * 2^e| <= 1e-6 * y * 2^e
CloseAligned(x, y) == BCmp(BMul(BAbsDiff(x, y), Pow10(6)), y) <= 0

\* r is within the relative tolerance 1e-6 of a positive v
WithinTol(r, v) ==
  /\ Positive(r)
  /\ Abs(Gap(r, v)) <= 1
  /\ CloseAligned(BShl(r.m, r.e - (IF r.e < v.e THEN r.e ELSE v.e)),
                  BShl(v.m, v.e - (IF r.e < v.e THEN r.e ELSE v.e)))

\* a linear converter has converted a value V > 0 from U1 to U2, and its
\* result back from U2 to U1
RoundTrip == pc = "back" /\ calls[1].fn \in LinearFns /\ Positive(calls[1].value)

\* C5, as stated: for every pair of registered units of one linear category
\* and every value V > 0, converting V from U1 to U2 and the result back from
\* U2 to U1 yields V within 1e-6 relative tolerance.
C5_RoundTrip ==
  RoundTrip
  => /\ ~calls[2].ret.raised
     /\ WithinTol(calls[2].ret.value, calls[1].value)

\* C5, amended: the same for every value V with 2^-1000 <= V <= 2^1000.
C5_RoundTripInRange ==
  RoundTrip /\ InRange(calls[1].value)
  => /\ ~calls[2].ret.raised
     /\ WithinTol(calls[2].ret.value, calls[1].value)

\* 12345.6789 mi went to mm and came back, not exactly but within tolerance
C5_Witness ==
  /\ RoundTrip
  /\ calls[1].value = Dec(123456789, -4)
  /\ calls[1].from_unit = <<"m", "i">>
  /\ calls[1].to_unit = <<"m", "m">>
  /\ calls[2].ret.value # calls[1].value
  /\ WithinTol(calls[2].ret.value, calls[1].value)

\* whether the converter fn takes the unit for one of its own category
Own(fn, unit) ==
  IF fn = "convert_temperature" THEN lower(unit) \in KeysOf(fn) ELSE unit \in KeysOf(fn)

\* C6: for every registered unit U of any of the four categories and every
\* value V, converting V with from_unit = to_unit = U returns V exactly.
C6_Identity ==
  /\ pc = "called"
  /\ calls[1].from_unit = calls[1].to_unit
  /\ Own(calls[1].fn, calls[1].from_unit)
  => /\ ~calls[1].ret.raised
     /\ FEq(calls[1].ret.value, calls[1].value)

\* the first letter of a temperature name, in lower case: its short symbol
Short(unit) == <<Head(lower(unit))>>

\* the value in Celsius, for the short symbol s of from_unit
ToCelsiusRef(v, s) ==
  CASE s = <<"c">> -> v
    [] s = <<"f">> -> FDiv(FMul(FSub(v, FromInt(32)), FromInt(5)), FromInt(9))
    [] s = <<"k">> -> FSub(v, Dec(27315, -2))

\* the Celsius value c in the unit of the short symbol s
FromCelsiusRef(c, s) ==
  CASE s = <<"c">> -> c
    [] s = <<"f">> -> FAdd(FDiv(FMul(c, FromInt(9)), FromInt(5)), FromInt(32))
    [] s = <<"k">> -> FAdd(c, Dec(27315, -2))

\* C7: for every value and every pair of temperature names, convert_temperature
\* returns the value mapped to Celsius (value; (value - 32) * 5 / 9;
\* value - 273.15) and from Celsius to the target (celsius; celsius * 9 / 5 + 32;
\* celsius + 273.15), a synonym giving what its short symbol gives; 32 f to c
\* is 0.0 and 0 c to k is 273.15.
C7_TwoStepAffine ==
  \A i \in 1..Len(calls) :
    /\ calls[i].fn = "convert_temperature"
    /\ lower(calls[i].from_unit) \in KeySets[4]
    /\ lower(calls[i].to_unit) \in KeySets[4]
    => /\ ~calls[i].ret.raised
       /\ calls[i].ret.value
          = FromCelsiusRef(ToCelsiusRef(calls[i].value, Short(calls[i].from_unit)),
                           Short(calls[i].to_unit))
       /\ /\ calls[i].value = FromInt(32)
          /\ Short(calls[i].from_unit) = <<"f">>
          /\ Short(calls[i].to_unit) = <<"c">>
          => calls[i].ret.value = FZero(0)
       /\ /\ calls[i].value = FZero(0)
          /\ Short(calls[i].from_unit) = <<"c">>
          /\ Short(calls[i].to_unit) = <<"k">>
          => calls[i].ret.value = Dec(27315, -2)

\* 32 fahrenheit has been converted to c, giving 0.0
C7_Witness ==
  /\ pc = "called"
  /\ calls[1].fn = "convert_temperature"
  /\ calls[1].value = FromInt(32)
  /\ calls[1].from_unit = <<"f", "a", "h", "r", "e", "n", "h", "e", "i", "t">>
  /\ calls[1].to_unit = <<"c">>
  /\ calls[1].ret.value = FZero(0)

\* the unit the unknown-unit error of a call names: from_unit before to_unit
Blamed(call) ==
  IF ~Own(call.fn, call.from_unit) THEN call.from_unit ELSE call.to_unit

\* C8: a converter called with a from_unit or to_unit that is not registered
\* in its own category, be it registered in another, fails with its
\* unknown-unit error and returns no number; from_unit is checked before
\* to_unit, so that the error names from_unit when both are unregistered.
C8_ValidationInConverter ==
  \A i \in 1..Len(calls) :
    ~Own(calls[i].fn, calls[i].from_unit) \/ ~Own(calls[i].fn, calls[i].to_unit)
    => /\ calls[i].ret.raised
       /\ calls[i].ret.exc = "ValueError"
       /\ calls[i].ret.text = UnknownText(calls[i].fn)
       /\ lower(calls[i].ret.unit) = lower(Blamed(calls[i]))

\* convert_weight, given a length unit and an unregistered string, named the
\* length unit
C8_Witness ==
  /\ pc = "called"
  /\ calls[1].fn = "convert_weight"
  /\ calls[1].from_unit = <<"k", "m">>
  /\ calls[1].to_unit = <<"x", "y", "z">>
  /\ calls[1].ret.raised
  /\ calls[1].ret.unit = <<"k", "m">>

\* C9: for each converter, every value and every registered symbol of its
\* category written in any letter-casing, a direct call gives the same
\* outcome, the same number and no error, as the call with the lowercase
\* symbols.
C9_ConverterCaseInsensitive ==
  /\ pc = "called"
  /\ lower(calls[1].from_unit) \in KeysOf(calls[1].fn)
  /\ lower(calls[1].to_unit) \in KeysOf(calls[1].fn)
  => /\ ~calls[1].ret.raised
     /\ calls[1].ret = convert(calls[1].fn, calls[1].value,
                               lower(calls[1].from_unit), lower(calls[1].to_unit))

====
